---- MODULE Spec2Model ----
(***************************************************************************)
(* Model of splotty-labels: the Preset data model (models.py) and its      *)
(* JSON persistence layer (storage.py): Storage.list_presets, Storage.load *)
(* and Storage.save with its write-to-temporary-then-rename protocol.      *)
(*                                                                         *)
(* Two families of values are kept apart: Python values (what a Preset     *)
(* holds in memory and what json.loads returns) and JSON values (what a    *)
(* file holds). ToJson and FromJson are json.dumps and json.loads.         *)
(***************************************************************************)
EXTENDS Integers, Sequences, FiniteSets, TLC

(***************************************************************************)
(* Bounds of the model.                                                    *)
(***************************************************************************)
\* A text reaches the disk in this many write steps; an interrupted write
\* leaves any proper prefix of them.
WriteChunks == 2

\* The hand-edited documents include those with up to this many of the
\* top-level keys missing.
MaxAbsent == 2

(***************************************************************************)
(* Python values.                                                          *)
(***************************************************************************)
PyNone == [t |-> "none"]
PyBool(b) == [t |-> "bool", b |-> b]
PyInt(i) == [t |-> "int", i |-> i]
PyStr(s) == [t |-> "str", s |-> s]
PyList(q) == [t |-> "list", q |-> q]
PyDict(d) == [t |-> "dict", d |-> d]

\* The empty mapping, whatever the type of its keys.
Empty == <<>>

Range(q) == {q[i] : i \in DOMAIN q}

\* dict.get(key, default) on a Python dict whose keys are str.
DictGet(dict, key, default) ==
    IF PyStr(key) \in DOMAIN dict.d THEN dict.d[PyStr(key)] ELSE default

\* Values a set or a dict key cannot hold (hash() raises TypeError).
Unhashable(v) == v.t \in {"list", "dict"}

(***************************************************************************)
(* JSON values: the content of a document.                                 *)
(***************************************************************************)
JNull == [t |-> "jnull"]
JBool(b) == [t |-> "jbool", jb |-> b]
JNum(i) == [t |-> "jnum", jn |-> i]
JStr(s) == [t |-> "jstr", js |-> s]
JArr(q) == [t |-> "jarr", ja |-> q]
JObj(o) == [t |-> "jobj", jo |-> o]

(***************************************************************************)
(* Strings are compared as Python compares them: code point by code point. *)
(* Codes gives the code points of the strings the model sorts or splits.   *)
(***************************************************************************)
Codes ==
    "a" :> <<97>> @@ "b" :> <<98>> @@ "B" :> <<66>> @@ "ab" :> <<97, 98>> @@
    "x" :> <<120>> @@ "y" :> <<121>> @@ "xy" :> <<120, 121>> @@
    "root" :> <<114, 111, 111, 116>>

CharOf == 120 :> "x" @@ 121 :> "y" @@ 97 :> "a" @@ 98 :> "b" @@ 66 :> "B" @@
          114 :> "r" @@ 111 :> "o" @@ 116 :> "t"

RECURSIVE LexLess(_, _)
LexLess(u, v) ==
    IF v = <<>> THEN FALSE
    ELSE IF u = <<>> THEN TRUE
    ELSE IF Head(u) # Head(v) THEN Head(u) < Head(v)
    ELSE LexLess(Tail(u), Tail(v))

StrLess(s, u) == LexLess(Codes[s], Codes[u])

\* sorted(S) for a set of strings: ascending, one entry per element.
RECURSIVE SortedStrings(_)
SortedStrings(S) ==
    IF S = {} THEN <<>>
    ELSE LET m == CHOOSE x \in S : \A y \in S \ {x} : StrLess(x, y)
         IN <<m>> \o SortedStrings(S \ {m})

\* sorted(tags) for a Python set of str.
SortedTags(tags) ==
    LET q == SortedStrings({v.s : v \in tags}) IN [i \in DOMAIN q |-> PyStr(q[i])]

(***************************************************************************)
(* json.dumps and json.loads.                                              *)
(***************************************************************************)
IntText == 0 :> "0" @@ 1 :> "1" @@ 2 :> "2" @@ 3 :> "3"

\* json.dumps coerces the keys of a dict to strings.
KeyText(k) ==
    CASE k.t = "str" -> k.s
      [] k.t = "none" -> "null"
      [] k.t = "bool" -> IF k.b THEN "true" ELSE "false"
      [] k.t = "int" -> IntText[k.i]

RECURSIVE ToJson(_)
ToJson(v) ==
    CASE v.t = "none" -> JNull
      [] v.t = "bool" -> JBool(v.b)
      [] v.t = "int" -> JNum(v.i)
      [] v.t = "str" -> JStr(v.s)
      [] v.t = "list" -> JArr([i \in DOMAIN v.q |-> ToJson(v.q[i])])
      [] v.t = "dict" ->
           JObj([s \in {KeyText(k) : k \in DOMAIN v.d} |->
                    ToJson(v.d[CHOOSE k \in DOMAIN v.d : KeyText(k) = s])])

RECURSIVE FromJson(_)
FromJson(j) ==
    CASE j.t = "jnull" -> PyNone
      [] j.t = "jbool" -> PyBool(j.jb)
      [] j.t = "jnum" -> PyInt(j.jn)
      [] j.t = "jstr" -> PyStr(j.js)
      [] j.t = "jarr" -> PyList([i \in DOMAIN j.ja |-> FromJson(j.ja[i])])
      [] j.t = "jobj" ->
           PyDict([k \in {PyStr(s) : s \in DOMAIN j.jo} |-> FromJson(j.jo[k.s])])

(***************************************************************************)
(* The data model (models.py).                                             *)
(***************************************************************************)
DefaultBaud == 115200
DefaultStopbits == 1
DefaultMonitorSecs == 3
DefaultUiMaxPreview == 8
DefaultUiMaxDynamic == 3
DefaultUiMaxHelp == 2
SCHEMA_VERSION == 1

TreeNode(id, name, type, parent_id, children, expanded, field_id) ==
    [id |-> id, name |-> name, type |-> type, parent_id |-> parent_id,
     children |-> children, expanded |-> expanded, field_id |-> field_id]

\* tags is a Python set: a set of values.
FieldDef(id, label, tags, origin_index) ==
    [id |-> id, label |-> label, tags |-> tags, origin_index |-> origin_index]

\* Preset(name=name): every other attribute at its dataclass default.
Preset(name) ==
    [name |-> name,
     device |-> PyStr(""),
     baud |-> PyInt(DefaultBaud),
     parity |-> PyStr("N"),
     stopbits |-> PyInt(DefaultStopbits),
     monitor_secs |-> PyInt(DefaultMonitorSecs),
     ui_max_preview |-> PyInt(DefaultUiMaxPreview),
     ui_max_dynamic |-> PyInt(DefaultUiMaxDynamic),
     ui_max_help |-> PyInt(DefaultUiMaxHelp),
     tree_nodes |-> Empty,
     fields |-> Empty,
     root_id |-> PyStr("root"),
     last_preview |-> PyNone]

\* The root node load() synthesizes (both places leave field_id at its default).
RootNode(root_id) ==
    TreeNode(root_id, PyStr("Root"), PyStr("branch"), PyNone, PyList(<<>>),
             PyBool(TRUE), PyNone)

(***************************************************************************)
(* Results of an operation: a returned value or a raised exception.        *)
(***************************************************************************)
Return(v) == [ok |-> TRUE, value |-> v]
Raise(e) == [ok |-> FALSE, error |-> e]

(***************************************************************************)
(* Texts. A text is the sequence of the chunks written to a file; chunk k  *)
(* of the text of document j is [of |-> j, at |-> k]. A hole is what a     *)
(* write beyond the end of a file leaves before it.                        *)
(***************************************************************************)
Chunk(j, k) == [of |-> j, at |-> k]
Hole == Chunk(JNull, 0)

\* json.dumps(data, indent=2) of a document: all its chunks.
TextOf(j) == [k \in 1..WriteChunks |-> Chunk(j, k)]

\* json.loads(text): only the complete text of one document parses.
JsonLoads(text) ==
    IF /\ Len(text) = WriteChunks
       /\ \A k \in 1..WriteChunks : text[k] = Chunk(text[1].of, k)
    THEN Return(FromJson(text[1].of))
    ELSE Raise("JSONDecodeError")

(***************************************************************************)
(* Storage.save: the document written for a preset.                        *)
(***************************************************************************)
\* A save() that forgets a node's expanded flag.
NodeDataNoExpanded(nd) ==
    PyDict(PyStr("name") :> nd.name @@ PyStr("type") :> nd.type @@
           PyStr("parent_id") :> nd.parent_id @@ PyStr("children") :> nd.children @@
           PyStr("field_id") :> nd.field_id)

NodeData(nd) ==
    PyDict(PyStr("name") :> nd.name @@ PyStr("type") :> nd.type @@
           PyStr("parent_id") :> nd.parent_id @@ PyStr("children") :> nd.children @@
           PyStr("expanded") :> nd.expanded @@ PyStr("field_id") :> nd.field_id)

FieldData(f) ==
    PyDict(PyStr("label") :> f.label @@ PyStr("tags") :> PyList(SortedTags(f.tags)) @@
           PyStr("origin_index") :> f.origin_index)

SaveData(preset) ==
    PyDict(PyStr("schema") :> PyInt(SCHEMA_VERSION) @@
           PyStr("name") :> preset.name @@
           PyStr("device") :> preset.device @@
           PyStr("baud") :> preset.baud @@
           PyStr("parity") :> preset.parity @@
           PyStr("stopbits") :> preset.stopbits @@
           PyStr("monitor_secs") :> preset.monitor_secs @@
           PyStr("ui_max_preview") :> preset.ui_max_preview @@
           PyStr("ui_max_dynamic") :> preset.ui_max_dynamic @@
           PyStr("ui_max_help") :> preset.ui_max_help @@
           PyStr("root_id") :> preset.root_id @@
           PyStr("last_preview") :> preset.last_preview @@
           PyStr("tree_nodes") :>
               PyDict([nid \in DOMAIN preset.tree_nodes |->
                          NodeData(preset.tree_nodes[nid])]) @@
           PyStr("fields") :>
               PyDict([fid \in DOMAIN preset.fields |->
                          FieldData(preset.fields[fid])]))

\* The text save() writes: json.dumps(data, indent=2).
SaveText(preset) == TextOf(ToJson(SaveData(preset)))

(***************************************************************************)
(* Storage.load.                                                           *)
(***************************************************************************)
\* A load() that returns the bare default preset, without a root.
LoadMissingNoRoot(name) == Preset(PyStr(name))

\* The preset load() returns when the file does not exist.
LoadMissing(name) ==
    LET preset == Preset(PyStr(name))
    IN [preset EXCEPT !.tree_nodes = preset.root_id :> RootNode(preset.root_id)]

\* set(x): the elements of a list, the characters of a str, the keys of a dict.
SetOf(x) ==
    CASE x.t = "list" -> Range(x.q)
      [] x.t = "str" -> {PyStr(CharOf[c]) : c \in Range(Codes[x.s])}
      [] x.t = "dict" -> DOMAIN x.d

\* The exception TreeNode(... nd["name"], nd["type"] ...) raises, or "none".
NodeError(nd) ==
    IF nd.t # "dict" THEN "TypeError"
    ELSE IF PyStr("name") \notin DOMAIN nd.d \/ PyStr("type") \notin DOMAIN nd.d
         THEN "KeyError"
         ELSE "none"

\* The exception FieldDef(... fd.get ... set(fd.get("tags", [])) ...) raises, or "none".
FieldError(fd) ==
    IF fd.t # "dict" THEN "AttributeError"
    ELSE LET tags == DictGet(fd, "tags", PyList(<<>>))
         IN IF tags.t \in {"none", "bool", "int"} THEN "TypeError"
            ELSE IF tags.t = "list" /\ \E v \in Range(tags.q) : Unhashable(v)
                 THEN "TypeError"
                 ELSE "none"

LoadNode(nid, nd) ==
    TreeNode(nid, nd.d[PyStr("name")], nd.d[PyStr("type")],
             DictGet(nd, "parent_id", PyNone),
             DictGet(nd, "children", PyList(<<>>)),
             DictGet(nd, "expanded", PyBool(TRUE)),
             DictGet(nd, "field_id", PyNone))

\* A load() that defaults a missing label to the empty string.
LoadFieldNoLabel(fid, fd) ==
    FieldDef(fid, DictGet(fd, "label", PyStr("")),
             SetOf(DictGet(fd, "tags", PyList(<<>>))),
             DictGet(fd, "origin_index", PyNone))

LoadField(fid, fd) ==
    FieldDef(fid, DictGet(fd, "label", fid),
             SetOf(DictGet(fd, "tags", PyList(<<>>))),
             DictGet(fd, "origin_index", PyNone))

\* A load() that never synthesizes the root.
EnsureRootNever(tree_nodes, root_id) == tree_nodes

\* "ensure root exists": the root is synthesized when no node has its id.
EnsureRoot(tree_nodes, root_id) ==
    IF root_id \in DOMAIN tree_nodes
    THEN tree_nodes
    ELSE tree_nodes @@ (root_id :> RootNode(root_id))

\* The first exception the tolerant loader raises on data, or "none". Entries of
\* a mapping are visited in file order, which the model does not keep: when
\* several entries raise, one of them is taken.
LoadError(data) ==
    IF data.t # "dict" THEN "AttributeError"
    ELSE LET nodes == DictGet(data, "tree_nodes", PyDict(Empty))
             fields == DictGet(data, "fields", PyDict(Empty))
             root_id == DictGet(data, "root_id", PyStr("root"))
         IN IF nodes.t # "dict" THEN "AttributeError"
            ELSE IF \E nid \in DOMAIN nodes.d : NodeError(nodes.d[nid]) # "none"
            THEN NodeError(nodes.d[CHOOSE nid \in DOMAIN nodes.d :
                                       NodeError(nodes.d[nid]) # "none"])
            ELSE IF fields.t # "dict" THEN "AttributeError"
            ELSE IF \E fid \in DOMAIN fields.d : FieldError(fields.d[fid]) # "none"
            THEN FieldError(fields.d[CHOOSE fid \in DOMAIN fields.d :
                                         FieldError(fields.d[fid]) # "none"])
            ELSE IF Unhashable(root_id) THEN "TypeError"
            ELSE "none"

\* The preset the tolerant loader builds from data, when it raises nothing.
LoadData(name, data) ==
    LET nodes == DictGet(data, "tree_nodes", PyDict(Empty))
        fields == DictGet(data, "fields", PyDict(Empty))
        root_id == DictGet(data, "root_id", PyStr("root"))
        tree_nodes == [nid \in DOMAIN nodes.d |-> LoadNode(nid, nodes.d[nid])]
    IN [name |-> DictGet(data, "name", PyStr(name)),
        device |-> DictGet(data, "device", PyStr("")),
        baud |-> DictGet(data, "baud", PyInt(DefaultBaud)),
        parity |-> DictGet(data, "parity", PyStr("N")),
        stopbits |-> DictGet(data, "stopbits", PyInt(DefaultStopbits)),
        monitor_secs |-> DictGet(data, "monitor_secs", PyInt(DefaultMonitorSecs)),
        ui_max_preview |-> DictGet(data, "ui_max_preview", PyInt(DefaultUiMaxPreview)),
        ui_max_dynamic |-> DictGet(data, "ui_max_dynamic", PyInt(DefaultUiMaxDynamic)),
        ui_max_help |-> DictGet(data, "ui_max_help", PyInt(DefaultUiMaxHelp)),
        tree_nodes |-> EnsureRoot(tree_nodes, root_id),
        fields |-> [fid \in DOMAIN fields.d |-> LoadField(fid, fields.d[fid])],
        root_id |-> root_id,
        last_preview |-> DictGet(data, "last_preview", PyNone)]

\* load() of an existing file whose text is text.
LoadText(name, text) ==
    LET parsed == JsonLoads(text)
    IN IF ~parsed.ok THEN parsed
       ELSE IF LoadError(parsed.value) # "none" THEN Raise(LoadError(parsed.value))
       ELSE Return(LoadData(name, parsed.value))

(***************************************************************************)
(* The base directory. A path is the sequence of a file name's stem and    *)
(* suffixes. An open file follows its inode: when the entry it was opened  *)
(* through is renamed the open file is at the new path, and when the entry *)
(* is replaced the open file is an orphan, a file no path names, which     *)
(* lives until its last holder closes it.                                  *)
(***************************************************************************)
Names == {"a", "b"}
Writers == {1, 2}
Reader == 0
Holders == Writers \cup {Reader}

\* Storage.preset_path: base_dir / f"{name}.json".
PresetPath(name) == <<name, ".json">>

\* Path.with_suffix: the last suffix is replaced by the given suffixes.
WithSuffix(path, suffixes) == SubSeq(path, 1, Len(path) - 1) \o suffixes

\* A save() that writes the target in place.
TmpPathInPlace(name) == PresetPath(name)

\* The temporary file of save(): p.with_suffix(".json.tmp").
TmpPath(name) == WithSuffix(PresetPath(name), <<".json", ".tmp">>)

Paths == {PresetPath(n) : n \in Names} \cup {TmpPath(n) : n \in Names}

\* Path.stem: the file name without its last suffix.
Stem(path) == path[1]

\* What a path holds: nothing, or a text.
Absent == [exists |-> FALSE]
File(text) == [exists |-> TRUE, text |-> text]

\* A glob that matches every entry of the directory.
GlobAll(d) == {q \in Paths : d[q].exists}

\* base_dir.glob("*.json"): the entries whose file name ends in .json.
Glob(d) == {q \in Paths : d[q].exists /\ q[Len(q)] = ".json"}

\* Storage.list_presets.
ListOf(d) == SortedStrings({Stem(q) : q \in Glob(d)})

\* What a process has open.
Closed == [k |-> "closed"]
AtPath(q) == [k |-> "path", path |-> q]
Orphan == [k |-> "orphan"]

VARIABLES
    todo,       \* writer -> the presets it calls save() with
    once,       \* whether a writer saves each of its presets only once
    files,      \* the directory: path -> Absent or File(text)
    orphans,    \* the open files no path names: [holders, text]
    fd,         \* process -> the file it has open
    wpc,        \* writer -> "idle", "open", "write", "rename", "done", "crashed"
    warg,       \* writer -> the preset being saved
    wpos,       \* writer -> chunks written so far
    wret,       \* writer -> result of its last save()
    wbefore,    \* writer -> the directory as it was when its save() began
    rpc,        \* reader: "idle", "open", "read", "done", "listed"
    rname,      \* reader: the name being loaded
    rexisted,   \* reader: what p.exists() returned
    rtext,      \* reader: the text it read
    rret,       \* reader: result of its last load()
    rmay,       \* reader: the saved versions its load() overlapped with
    listing,    \* result of the last list_presets()
    listedAt,   \* the names whose save() had reached its rename at that call
    committed   \* name -> the preset whose save() last reached its rename

vars == <<todo, once, files, orphans, fd, wpc, warg, wpos, wret, wbefore,
          rpc, rname, rexisted, rtext, rret, rmay, listing, listedAt, committed>>

fsvars == <<files, orphans, fd>>
wvars == <<wpc, warg, wpos, wret, wbefore>>
rvars == <<rpc, rname, rexisted, rtext, rret, rmay>>
lvars == <<listing, listedAt>>

NoPreset == Preset(PyStr(""))
NoResult == Raise("none")
NoSnapshot == [q \in Paths |-> Absent]

NameOf(preset) == preset.name.s

\* The orphan process h holds.
OrphanOf(h) == CHOOSE o \in orphans : h \in o.holders

\* The text of the file process h has open.
OpenText(h) ==
    IF fd[h].k = "path" THEN files[fd[h].path].text ELSE OrphanOf(h).text

\* write() of chunk c at offset k - 1 of a text.
WriteAt(text, k, c) ==
    [j \in 1..(IF Len(text) > k THEN Len(text) ELSE k) |->
        IF j = k THEN c ELSE IF j <= Len(text) THEN text[j] ELSE Hole]

\* The directory and the orphans after process h wrote chunk c at offset k - 1
\* of the file it has open.
FilesWritten(h, k, c) ==
    IF fd[h].k = "path"
    THEN [files EXCEPT ![fd[h].path] = File(WriteAt(files[fd[h].path].text, k, c))]
    ELSE files

OrphansWritten(h, k, c) ==
    IF fd[h].k = "orphan"
    THEN (orphans \ {OrphanOf(h)}) \cup
         {[OrphanOf(h) EXCEPT !.text = WriteAt(OrphanOf(h).text, k, c)]}
    ELSE orphans

\* The orphans orph after process h closed its file: an orphan nobody holds
\* any more is gone.
OrphansClosed(orph, h) ==
    {o \in {[holders |-> x.holders \ {h}, text |-> x.text] : x \in orph} :
        o.holders # {}}

\* A save() that copies the temporary file and leaves it behind.
ReplacedByCopy(d, src, dst) == [d EXCEPT ![dst] = d[src]]

\* The directory d after src.replace(dst): dst names the file of src, and src
\* names nothing.
Replaced(d, src, dst) == [d EXCEPT ![dst] = d[src], ![src] = Absent]

(***************************************************************************)
(* Storage.save, step by step.                                             *)
(***************************************************************************)
\* save(preset) is called: p, tmp and data are computed.
SaveCall(w, preset) ==
    /\ preset \in todo[w]
    /\ wpc[w] = "idle"
    /\ todo' = IF once THEN [todo EXCEPT ![w] = todo[w] \ {preset}] ELSE todo
    /\ wpc' = [wpc EXCEPT ![w] = "open"]
    /\ warg' = [warg EXCEPT ![w] = preset]
    /\ wbefore' = [wbefore EXCEPT ![w] = files]
    /\ UNCHANGED <<once, fsvars, wpos, wret, rvars, lvars, committed>>

\* tmp.write_text opens tmp for writing: created if absent, truncated if present.
SaveOpen(w) ==
    /\ wpc[w] = "open"
    /\ LET tmp == TmpPath(NameOf(warg[w]))
       IN /\ files' = [files EXCEPT ![tmp] = File(<<>>)]
          /\ fd' = [fd EXCEPT ![w] = AtPath(tmp)]
    /\ wpos' = [wpos EXCEPT ![w] = 0]
    /\ wpc' = [wpc EXCEPT ![w] = "write"]
    /\ UNCHANGED <<todo, once, orphans, warg, wret, wbefore, rvars, lvars,
                   committed>>

\* tmp.write_text writes the next chunk of the text; after the last one it
\* closes the file.
SaveWrite(w) ==
    /\ wpc[w] = "write"
    /\ LET k == wpos[w] + 1
           c == SaveText(warg[w])[k]
           last == (k = WriteChunks)
       IN /\ wpos' = [wpos EXCEPT ![w] = k]
          /\ files' = FilesWritten(w, k, c)
          /\ orphans' = IF last THEN OrphansClosed(OrphansWritten(w, k, c), w)
                        ELSE OrphansWritten(w, k, c)
          /\ fd' = IF last THEN [fd EXCEPT ![w] = Closed] ELSE fd
          /\ wpc' = [wpc EXCEPT ![w] = IF last THEN "rename" ELSE "write"]
    /\ UNCHANGED <<todo, once, warg, wret, wbefore, rvars, lvars, committed>>

\* tmp.replace(p): the entry of p is atomically pointed at the file of tmp and
\* the entry of tmp removed; FileNotFoundError when tmp has no entry.
SaveRename(w) ==
    /\ wpc[w] = "rename"
    /\ LET name == NameOf(warg[w])
           p == PresetPath(name)
           tmp == TmpPath(name)
           held == {h \in Holders : fd[h] = AtPath(p)}
       IN IF ~files[tmp].exists
          THEN /\ wret' = [wret EXCEPT ![w] = Raise("FileNotFoundError")]
               /\ UNCHANGED <<fsvars, committed, rmay>>
          ELSE /\ wret' = [wret EXCEPT ![w] = Return(PyNone)]
               /\ files' = Replaced(files, tmp, p)
               /\ orphans' = IF held = {} THEN orphans
                             ELSE orphans \cup
                                  {[holders |-> held, text |-> files[p].text]}
               /\ fd' = [h \in Holders |->
                            IF fd[h] = AtPath(p) THEN Orphan
                            ELSE IF fd[h] = AtPath(tmp) THEN AtPath(p)
                            ELSE fd[h]]
               /\ committed' = [committed EXCEPT ![name] = {warg[w]}]
               /\ rmay' = IF rpc \in {"open", "read"} /\ rname = name
                          THEN rmay \cup {Return(warg[w])}
                          ELSE rmay
    /\ wpc' = [wpc EXCEPT ![w] = "done"]
    /\ UNCHANGED <<todo, once, warg, wpos, wbefore, rpc, rname, rexisted,
                   rtext, rret, lvars>>

\* save() has returned, raised or been interrupted, and the caller goes on.
SaveReturn(w) ==
    /\ wpc[w] \in {"done", "crashed"}
    /\ wpc' = [wpc EXCEPT ![w] = "idle"]
    /\ warg' = [warg EXCEPT ![w] = NoPreset]
    /\ wret' = [wret EXCEPT ![w] = NoResult]
    /\ wbefore' = [wbefore EXCEPT ![w] = NoSnapshot]
    /\ wpos' = [wpos EXCEPT ![w] = 0]
    /\ UNCHANGED <<todo, once, fsvars, rvars, lvars, committed>>

\* save() is interrupted before its rename: the process stops where it is and
\* its open file is closed.
Interrupt(w) ==
    /\ wpc[w] \in {"open", "write", "rename"}
    /\ wpc' = [wpc EXCEPT ![w] = "crashed"]
    /\ fd' = [fd EXCEPT ![w] = Closed]
    /\ orphans' = OrphansClosed(orphans, w)
    /\ UNCHANGED <<todo, once, files, warg, wpos, wret, wbefore, rvars, lvars,
                   committed>>

(***************************************************************************)
(* Storage.load, step by step.                                             *)
(***************************************************************************)
\* load(name) is called and tests p.exists(); when p does not exist it returns
\* the fresh preset.
LoadExists(name) ==
    /\ rpc = "idle"
    /\ rname' = name
    /\ rexisted' = files[PresetPath(name)].exists
    /\ rmay' = {IF committed[name] = {} THEN Return(LoadMissing(name))
                ELSE Return(CHOOSE c \in committed[name] : TRUE)}
    /\ IF ~files[PresetPath(name)].exists
       THEN /\ rret' = Return(LoadMissing(name))
            /\ rpc' = "done"
       ELSE /\ rret' = NoResult
            /\ rpc' = "open"
    /\ UNCHANGED <<todo, once, fsvars, wvars, rtext, lvars, committed>>

\* p.read_text() opens the file p names at this moment.
LoadOpen ==
    /\ rpc = "open"
    /\ IF ~files[PresetPath(rname)].exists
       THEN /\ rret' = Raise("FileNotFoundError")
            /\ rpc' = "done"
            /\ UNCHANGED fd
       ELSE /\ fd' = [fd EXCEPT ![Reader] = AtPath(PresetPath(rname))]
            /\ rpc' = "read"
            /\ UNCHANGED rret
    /\ UNCHANGED <<todo, once, files, orphans, wvars, rname, rexisted, rtext,
                   rmay, lvars, committed>>

\* p.read_text() reads the file it opened and closes it; the text is parsed
\* and the preset built.
LoadRead ==
    /\ rpc = "read"
    /\ rtext' = OpenText(Reader)
    /\ rret' = LoadText(rname, OpenText(Reader))
    /\ fd' = [fd EXCEPT ![Reader] = Closed]
    /\ orphans' = OrphansClosed(orphans, Reader)
    /\ rpc' = "done"
    /\ UNCHANGED <<todo, once, files, wvars, rname, rexisted, rmay, lvars,
                   committed>>

\* load() returns (or its exception has propagated) and the caller goes on.
LoadReturn ==
    /\ rpc = "done"
    /\ rpc' = "idle"
    /\ rret' = NoResult
    /\ rtext' = <<>>
    /\ rmay' = {}
    /\ rexisted' = FALSE
    /\ rname' = "a"
    /\ UNCHANGED <<todo, once, fsvars, wvars, lvars, committed>>

(***************************************************************************)
(* Storage.list_presets.                                                   *)
(***************************************************************************)
\* The process that loads calls list_presets().
ListPresets ==
    /\ rpc = "idle"
    /\ rpc' = "listed"
    /\ listing' = ListOf(files)
    /\ listedAt' = {n \in Names : committed[n] # {}}
    /\ UNCHANGED <<todo, once, fsvars, wvars, rname, rexisted, rtext, rret,
                   rmay, committed>>

\* list_presets() has returned and the caller goes on.
ListReturn ==
    /\ rpc = "listed"
    /\ rpc' = "idle"
    /\ listing' = <<>>
    /\ listedAt' = {}
    /\ UNCHANGED <<todo, once, fsvars, wvars, rname, rexisted, rtext, rret,
                   rmay, committed>>

(***************************************************************************)
(* Specifications.                                                         *)
(***************************************************************************)
Version(name, device) ==
    [LoadMissing(name) EXCEPT !.device = PyStr(device)]

SmallPresets == {Version("a", "v1"), Version("a", "v2"), Version("b", "v1")}

InitProcesses ==
    /\ orphans = {}
    /\ fd = [h \in Holders |-> Closed]
    /\ wpc = [w \in Writers |-> "idle"]
    /\ warg = [w \in Writers |-> NoPreset]
    /\ wpos = [w \in Writers |-> 0]
    /\ wret = [w \in Writers |-> NoResult]
    /\ wbefore = [w \in Writers |-> NoSnapshot]
    /\ rpc = "idle"
    /\ rname = "a"
    /\ rexisted = FALSE
    /\ rtext = <<>>
    /\ rret = NoResult
    /\ rmay = {}
    /\ listing = <<>>
    /\ listedAt = {}
    /\ committed = [n \in Names |-> {}]

\* One process saves, another loads and lists; a save may be interrupted. The
\* directory starts empty.
Init ==
    /\ todo = [w \in Writers |-> IF w = 1 THEN SmallPresets ELSE {}]
    /\ once = FALSE
    /\ files = [q \in Paths |-> Absent]
    /\ InitProcesses

Next ==
    \/ \E w \in Writers : \E preset \in todo[w] : SaveCall(w, preset)
    \/ \E w \in Writers : SaveOpen(w)
    \/ \E w \in Writers : SaveWrite(w)
    \/ \E w \in Writers : SaveRename(w)
    \/ \E w \in Writers : SaveReturn(w)
    \/ \E w \in Writers : Interrupt(w)
    \/ \E name \in Names : LoadExists(name)
    \/ LoadOpen
    \/ LoadRead
    \/ LoadReturn
    \/ ListPresets
    \/ ListReturn

Spec == Init /\ [][Next]_vars

(***************************************************************************)
(* The presets of the round trip: every combination of default and other   *)
(* settings, a cached preview or none, two root ids, four trees and four   *)
(* sets of fields. Every tree is keyed by the ids of its nodes and holds   *)
(* its root, as load() builds them.                                        *)
(***************************************************************************)
OtherSettings(preset) ==
    [preset EXCEPT !.device = PyStr("dev"), !.baud = PyInt(9600),
                   !.parity = PyStr("E"), !.stopbits = PyInt(2),
                   !.monitor_secs = PyInt(5), !.ui_max_preview = PyInt(4),
                   !.ui_max_dynamic = PyInt(1), !.ui_max_help = PyInt(0)]

Preview ==
    PyDict(PyStr("label_line") :> PyStr("l") @@ PyStr("data_line") :> PyStr("d"))

Group(r, children, expanded) ==
    TreeNode(PyStr("g"), PyStr("Group"), PyStr("branch"), PyStr(r), PyList(children),
             PyBool(expanded), PyNone)

Leaf(parent) ==
    TreeNode(PyStr("f"), PyStr("Leaf"), PyStr("field"), PyStr(parent), PyList(<<>>),
             PyBool(TRUE), PyStr("f1"))

Root(r, children, expanded) ==
    TreeNode(PyStr(r), PyStr("Root"), PyStr("branch"), PyNone, PyList(children),
             PyBool(expanded), PyNone)

Trees(r) ==
    {PyStr(r) :> RootNode(PyStr(r)),
     PyStr(r) :> Root(r, <<PyStr("g"), PyStr("f")>>, FALSE) @@
         PyStr("g") :> Group(r, <<>>, TRUE) @@ PyStr("f") :> Leaf(r),
     PyStr(r) :> Root(r, <<PyStr("f"), PyStr("g")>>, TRUE) @@
         PyStr("g") :> Group(r, <<>>, TRUE) @@ PyStr("f") :> Leaf(r),
     PyStr(r) :> Root(r, <<PyStr("g")>>, TRUE) @@
         PyStr("g") :> Group(r, <<PyStr("f")>>, FALSE) @@ PyStr("f") :> Leaf("g")}

FieldSets ==
    {Empty,
     PyStr("f1") :> FieldDef(PyStr("f1"), PyStr("L"), {}, PyNone),
     PyStr("f1") :> FieldDef(PyStr("f1"), PyStr("f1"), {PyStr("x"), PyStr("y")}, PyInt(2)),
     PyStr("f1") :> FieldDef(PyStr("f1"), PyStr("L"), {PyStr("y"), PyStr("B")}, PyInt(0)) @@
         PyStr("f2") :> FieldDef(PyStr("f2"), PyStr(""), {PyStr("x")}, PyNone)}

PresetsRooted(r) ==
    {[settings EXCEPT !.root_id = PyStr(r), !.tree_nodes = tree, !.fields = fields,
                      !.last_preview = preview] :
        settings \in {Preset(PyStr("a")), OtherSettings(Preset(PyStr("a")))},
        preview \in {PyNone, Preview},
        tree \in Trees(r),
        fields \in FieldSets}

PresetUniverse == PresetsRooted("root") \cup PresetsRooted("top")

\* One preset is saved, again and again, and loaded.
InitRoundTrip ==
    /\ \E preset \in PresetUniverse :
           todo = [w \in Writers |-> IF w = 1 THEN {preset} ELSE {}]
    /\ once = FALSE
    /\ files = [q \in Paths |-> Absent]
    /\ InitProcesses

SpecRoundTrip == InitRoundTrip /\ [][Next]_vars

(***************************************************************************)
(* Hand-edited and older documents: the file a.json as load() may find it. *)
(***************************************************************************)
Restrict(f, K) == [k \in K |-> f[k]]

FullPreset ==
    [OtherSettings(Preset(PyStr("a"))) EXCEPT
        !.tree_nodes = PyStr("root") :> Root("root", <<PyStr("g"), PyStr("f")>>, FALSE) @@
                       PyStr("g") :> Group("root", <<>>, FALSE) @@
                       PyStr("f") :> Leaf("root"),
        !.fields = PyStr("f1") :> FieldDef(PyStr("f1"), PyStr("L"),
                                           {PyStr("x"), PyStr("y")}, PyInt(2)),
        !.last_preview = Preview]

\* The document save() writes for FullPreset, key by key.
FullDoc == ToJson(SaveData(FullPreset)).jo
FullNode == FullDoc["tree_nodes"].jo["g"].jo
FullField == FullDoc["fields"].jo["f1"].jo

With(key, j) == JObj([FullDoc EXCEPT ![key] = j])

\* Documents with some of the top-level keys missing, or all of them.
DocsTopLevel ==
    {JObj(Restrict(FullDoc, DOMAIN FullDoc \ A)) :
        A \in {B \in SUBSET DOMAIN FullDoc : Cardinality(B) <= MaxAbsent}}
    \cup {JObj(Empty)}

\* Documents with one node beside the root, or without the root, the node with
\* any of its keys missing.
DocsNode ==
    {With("tree_nodes", JObj(("g" :> JObj(Restrict(FullNode, K))) @@ rest)) :
        K \in SUBSET DOMAIN FullNode,
        rest \in {Empty, "root" :> FullDoc["tree_nodes"].jo["root"]}}

\* Documents with one field, with any of its keys missing.
DocsField ==
    {With("fields", JObj("f1" :> JObj(Restrict(FullField, K)))) :
        K \in SUBSET DOMAIN FullField}

WithTags(j) == With("fields", JObj("f1" :> JObj([FullField EXCEPT !["tags"] = j])))

\* Documents of another shape than save() writes.
DocsOdd ==
    {JArr(<<>>), JNull, JNum(5), JStr("s"),
     With("tree_nodes", JNull), With("tree_nodes", JArr(<<>>)),
     With("tree_nodes", JObj("g" :> JNull)), With("tree_nodes", JObj("g" :> JArr(<<>>))),
     With("tree_nodes", JObj("g" :> JStr("s"))),
     With("fields", JNull), With("fields", JArr(<<>>)),
     With("fields", JObj("f1" :> JNull)), With("fields", JObj("f1" :> JArr(<<>>))),
     WithTags(JNull), WithTags(JNum(5)), WithTags(JStr("xy")),
     WithTags(JObj("x" :> JNum(1))), WithTags(JArr(<<JStr("x"), JStr("x")>>)),
     WithTags(JArr(<<JArr(<<>>)>>)), WithTags(JArr(<<JStr("y"), JStr("x")>>)),
     With("root_id", JNull), With("root_id", JNum(5)), With("root_id", JArr(<<>>)),
     With("root_id", JStr("g")), With("name", JNum(5)), With("baud", JStr("fast")),
     JObj(FullDoc @@ ("extra" :> JNum(1))), With("schema", JNum(3))}

Documents == DocsTopLevel \cup DocsNode \cup DocsField \cup DocsOdd

\* The texts of the documents, and texts cut short.
DocTexts ==
    {TextOf(j) : j \in Documents}
    \cup {SubSeq(TextOf(JObj(FullDoc)), 1, k) : k \in 0..(WriteChunks - 1)}

\* The directory holds a.json, written by other hands; it is loaded and listed.
InitLoad ==
    /\ \E text \in DocTexts :
           files = [q \in Paths |-> IF q = PresetPath("a") THEN File(text) ELSE Absent]
    /\ todo = [w \in Writers |-> {}]
    /\ once = FALSE
    /\ InitProcesses

NextLoad ==
    \/ \E name \in Names : LoadExists(name)
    \/ LoadOpen
    \/ LoadRead
    \/ LoadReturn
    \/ ListPresets
    \/ ListReturn

SpecLoad == InitLoad /\ [][NextLoad]_vars

\* Two processes each save a preset of the same name, at the same time.
ConcurrentPresets == {Version("a", "v1"), Version("a", "v2")}

InitConcurrent ==
    /\ todo \in [Writers -> {{preset} : preset \in ConcurrentPresets}]
    /\ once = TRUE
    /\ files = [q \in Paths |-> Absent]
    /\ InitProcesses

SpecConcurrent == InitConcurrent /\ [][Next]_vars

(***************************************************************************)
(* Properties.                                                             *)
(***************************************************************************)
InProgress(w) == wpc[w] \in {"open", "write", "rename"}

\* C1: round trip. After save(P) has completed, load(P.name) returns a preset
\* with the tree_nodes of P (the same node ids and, node by node, the same id,
\* name, type, parent_id, children in the same order, expanded and field_id),
\* the fields of P (the same field ids and, field by field, the same id, label,
\* origin_index and set of tags) and the scalar settings of P.
SameNodes(A, B) ==
    /\ DOMAIN A.tree_nodes = DOMAIN B.tree_nodes
    /\ \A nid \in DOMAIN A.tree_nodes :
           /\ A.tree_nodes[nid].id = B.tree_nodes[nid].id
           /\ A.tree_nodes[nid].name = B.tree_nodes[nid].name
           /\ A.tree_nodes[nid].type = B.tree_nodes[nid].type
           /\ A.tree_nodes[nid].parent_id = B.tree_nodes[nid].parent_id
           /\ A.tree_nodes[nid].children = B.tree_nodes[nid].children
           /\ A.tree_nodes[nid].expanded = B.tree_nodes[nid].expanded
           /\ A.tree_nodes[nid].field_id = B.tree_nodes[nid].field_id

SameFields(A, B) ==
    /\ DOMAIN A.fields = DOMAIN B.fields
    /\ \A fid \in DOMAIN A.fields :
           /\ A.fields[fid].id = B.fields[fid].id
           /\ A.fields[fid].label = B.fields[fid].label
           /\ A.fields[fid].origin_index = B.fields[fid].origin_index
           /\ A.fields[fid].tags = B.fields[fid].tags

SameSettings(A, B) ==
    \A key \in {"name", "device", "baud", "parity", "stopbits", "monitor_secs",
                "ui_max_preview", "ui_max_dynamic", "ui_max_help", "root_id",
                "last_preview"} : A[key] = B[key]

RoundTrip ==
    (rpc = "done" /\ rexisted) =>
        /\ rret.ok
        /\ \A preset \in committed[rname] :
               /\ SameNodes(rret.value, preset)
               /\ SameFields(rret.value, preset)
               /\ SameSettings(rret.value, preset)

\* A load after the save of a preset with other settings, a cached preview,
\* a collapsed root with two children, and a field with the tags x and y.
RoundTripWitness ==
    /\ rpc = "done"
    /\ rexisted
    /\ rret.ok
    /\ \E preset \in committed[rname] :
           /\ preset.baud = PyInt(9600)
           /\ preset.last_preview = Preview
           /\ preset.tree_nodes[preset.root_id].children = PyList(<<PyStr("g"), PyStr("f")>>)
           /\ preset.tree_nodes[preset.root_id].expanded = PyBool(FALSE)
           /\ PyStr("f1") \in DOMAIN preset.fields
           /\ preset.fields[PyStr("f1")].tags = {PyStr("x"), PyStr("y")}
           /\ rret.value.fields[PyStr("f1")].tags = {PyStr("x"), PyStr("y")}

\* C2: crash safety of save(). While a save of P has not reached its rename,
\* and after it was interrupted before its rename, <P.name>.json is exactly what
\* it was when the save began (the same text, or still absent); once the rename
\* has happened, <P.name>.json holds the complete text of P's document.
CrashSafety ==
    \A w \in Writers :
        LET p == PresetPath(NameOf(warg[w]))
        IN /\ (InProgress(w) \/ wpc[w] = "crashed") => files[p] = wbefore[w][p]
           /\ (wpc[w] = "done" /\ wret[w].ok) =>
                  /\ files[p] = File(SaveText(warg[w]))
                  /\ JsonLoads(files[p].text).ok

\* A save interrupted in the middle of its write, over an earlier version.
CrashSafetyWitness ==
    \E w \in Writers :
        /\ wpc[w] = "crashed"
        /\ wpos[w] = 1
        /\ wbefore[w][PresetPath(NameOf(warg[w]))].exists
        /\ files[TmpPath(NameOf(warg[w]))] = File(<<SaveText(warg[w])[1]>>)
        /\ files[PresetPath(NameOf(warg[w]))] # File(SaveText(warg[w]))

\* C3: with a single writer, a load(name) interleaved with saves of name
\* returns without error either the preset of the version saved before it
\* began (the fresh preset when none was) or a preset whose save reached its
\* rename while it ran; the text it reads is never a partial one.
ReaderSeesWholeVersions ==
    rpc = "done" =>
        /\ rret.ok
        /\ rret \in rmay
        /\ rexisted => JsonLoads(rtext).ok

\* A load that opened the file, and then a save of the same name reached its
\* rename before the load returned.
ReaderSeesWholeVersionsWitness ==
    /\ rpc = "done"
    /\ rexisted
    /\ Cardinality(rmay) = 2
    /\ rret.ok

\* C4: load(name) when <name>.json does not exist leaves the directory as it
\* is and returns a preset named name with the default settings and a single
\* node: the root (id root_id, type branch, no parent, expanded, no children).
LoadOfMissingFile ==
    /\ [](rpc = "done" /\ ~rexisted =>
            /\ rret.ok
            /\ rret.value.name = PyStr(rname)
            /\ rret.value.device = PyStr("")
            /\ rret.value.baud = PyInt(115200)
            /\ rret.value.parity = PyStr("N")
            /\ rret.value.stopbits = PyInt(1)
            /\ rret.value.monitor_secs = PyInt(3)
            /\ rret.value.ui_max_preview = PyInt(8)
            /\ rret.value.ui_max_dynamic = PyInt(3)
            /\ rret.value.ui_max_help = PyInt(2)
            /\ rret.value.root_id = PyStr("root")
            /\ rret.value.last_preview = PyNone
            /\ rret.value.fields = Empty
            /\ DOMAIN rret.value.tree_nodes = {rret.value.root_id}
            /\ LET root == rret.value.tree_nodes[rret.value.root_id]
               IN /\ root.id = rret.value.root_id
                  /\ root.type = PyStr("branch")
                  /\ root.parent_id = PyNone
                  /\ root.expanded = PyBool(TRUE)
                  /\ root.children = PyList(<<>>))
    /\ [][rpc = "idle" /\ rpc' = "done" => files' = files /\ orphans' = orphans]_vars

\* A load of a name that has no file, next to the file of another name.
LoadOfMissingFileWitness ==
    /\ rpc = "done"
    /\ ~rexisted
    /\ rret.ok
    /\ \E n \in Names \ {rname} : files[PresetPath(n)].exists

\* What load() read, parsed, and the parts of it the properties speak of.
DataRead == JsonLoads(rtext).value
NodesRead == DictGet(DataRead, "tree_nodes", PyDict(Empty))
FieldsRead == DictGet(DataRead, "fields", PyDict(Empty))
RootIdRead == DictGet(DataRead, "root_id", PyStr("root"))
Has(dict, key) == PyStr(key) \in DOMAIN dict.d
LoadedFile == rpc = "done" /\ rexisted

\* C5: load() of a document whose tree_nodes lacks the document's root_id
\* returns a preset in which a root (id root_id, type branch, no parent, no
\* children) has been inserted and every other node is as in the document;
\* every preset load() returns has its root_id among the keys of tree_nodes.
AsInDocument(node, nid, nd) ==
    /\ node.id = nid
    /\ \A key \in {"name", "type", "parent_id", "children", "expanded", "field_id"} :
           Has(nd, key) => node[key] = nd.d[PyStr(key)]

RootEnsured ==
    (LoadedFile /\ rret.ok) =>
        /\ rret.value.root_id \in DOMAIN rret.value.tree_nodes
        /\ RootIdRead \notin DOMAIN NodesRead.d =>
               /\ rret.value.root_id = RootIdRead
               /\ DOMAIN rret.value.tree_nodes = DOMAIN NodesRead.d \cup {RootIdRead}
               /\ rret.value.tree_nodes[RootIdRead].id = RootIdRead
               /\ rret.value.tree_nodes[RootIdRead].type = PyStr("branch")
               /\ rret.value.tree_nodes[RootIdRead].parent_id = PyNone
               /\ rret.value.tree_nodes[RootIdRead].children = PyList(<<>>)
               /\ \A nid \in DOMAIN NodesRead.d :
                      AsInDocument(rret.value.tree_nodes[nid], nid, NodesRead.d[nid])

\* A load of a document that holds a node but not its root.
RootEnsuredWitness ==
    /\ LoadedFile
    /\ rret.ok
    /\ Has(DataRead, "root_id")
    /\ DOMAIN NodesRead.d = {PyStr("g")}
    /\ Has(NodesRead.d[PyStr("g")], "children")
    /\ DOMAIN rret.value.tree_nodes = {PyStr("g"), PyStr("root")}

\* C6, as claimed: load() of an existing file fails only when the file is not
\* valid JSON or some entry of tree_nodes lacks name or type; every other
\* document loads.
LacksRequired(nd) == nd.t = "dict" /\ (~Has(nd, "name") \/ ~Has(nd, "type"))

FailsOnlyWhenMalformed ==
    (LoadedFile /\ ~rret.ok) =>
        \/ ~JsonLoads(rtext).ok
        \/ /\ DataRead.t = "dict"
           /\ NodesRead.t = "dict"
           /\ \E nid \in DOMAIN NodesRead.d : LacksRequired(NodesRead.d[nid])

\* C7: schema tolerance. In a JSON object every absent key is read as its
\* default and causes no error: a document whose present values have the
\* shapes save() writes loads whatever keys it lacks, and the preset has, for
\* every absent key, the default.
IsStr(v) == v.t = "str"

Regular(data) ==
    /\ NodesRead.t = "dict"
    /\ \A nid \in DOMAIN NodesRead.d :
           /\ NodesRead.d[nid].t = "dict"
           /\ ~LacksRequired(NodesRead.d[nid])
    /\ FieldsRead.t = "dict"
    /\ \A fid \in DOMAIN FieldsRead.d :
           /\ FieldsRead.d[fid].t = "dict"
           /\ Has(FieldsRead.d[fid], "tags") =>
                  /\ FieldsRead.d[fid].d[PyStr("tags")].t = "list"
                  /\ \A v \in Range(FieldsRead.d[fid].d[PyStr("tags")].q) : IsStr(v)
    /\ IsStr(RootIdRead)

SettingDefaults ==
    [device |-> PyStr(""), baud |-> PyInt(115200), parity |-> PyStr("N"),
     stopbits |-> PyInt(1), monitor_secs |-> PyInt(3), ui_max_preview |-> PyInt(8),
     ui_max_dynamic |-> PyInt(3), ui_max_help |-> PyInt(2), root_id |-> PyStr("root"),
     last_preview |-> PyNone]

NodeDefaults ==
    [parent_id |-> PyNone, children |-> PyList(<<>>), expanded |-> PyBool(TRUE),
     field_id |-> PyNone]

AbsentKeysDefault ==
    (LoadedFile /\ JsonLoads(rtext).ok /\ DataRead.t = "dict") =>
        /\ Regular(DataRead) => rret.ok
        /\ rret.ok =>
            /\ \A key \in DOMAIN SettingDefaults :
                   ~Has(DataRead, key) => rret.value[key] = SettingDefaults[key]
            /\ ~Has(DataRead, "name") => rret.value.name = PyStr(rname)
            /\ ~Has(DataRead, "fields") => rret.value.fields = Empty
            /\ ~Has(DataRead, "tree_nodes") =>
                   /\ DOMAIN rret.value.tree_nodes = {rret.value.root_id}
                   /\ rret.value.tree_nodes[rret.value.root_id].type = PyStr("branch")
                   /\ rret.value.tree_nodes[rret.value.root_id].parent_id = PyNone
                   /\ rret.value.tree_nodes[rret.value.root_id].children = PyList(<<>>)
            /\ \A nid \in DOMAIN NodesRead.d :
                   \A key \in DOMAIN NodeDefaults :
                       ~Has(NodesRead.d[nid], key) =>
                           rret.value.tree_nodes[nid][key] = NodeDefaults[key]
            /\ \A fid \in DOMAIN FieldsRead.d :
                   /\ ~Has(FieldsRead.d[fid], "label") =>
                          rret.value.fields[fid].label = fid
                   /\ ~Has(FieldsRead.d[fid], "tags") =>
                          rret.value.fields[fid].tags = {}
                   /\ ~Has(FieldsRead.d[fid], "origin_index") =>
                          rret.value.fields[fid].origin_index = PyNone

\* A load of the empty object: every key is absent.
AbsentKeysDefaultWitness ==
    /\ LoadedFile
    /\ rtext = TextOf(JObj(Empty))
    /\ rret.ok
    /\ rret.value.baud = PyInt(115200)

\* C8: list_presets() returns, in ascending order and without duplicates,
\* exactly the names n whose file n.json is present, which are the names a save
\* of which has reached its rename: nothing for an empty directory, a before b,
\* and never the name of a leftover temporary file.
Ascending(q) == \A i, j \in DOMAIN q : i < j => StrLess(q[i], q[j])

ListIsSortedNames ==
    /\ \A n \in Names : files[PresetPath(n)].exists <=> committed[n] # {}
    /\ rpc = "listed" =>
        /\ Ascending(listing)
        /\ Range(listing) = listedAt
        /\ listedAt = {} => listing = <<>>
        /\ listedAt = {"a", "b"} => listing = <<"a", "b">>

\* Both names listed in order, while a temporary file lies in the directory.
ListIsSortedNamesWitness ==
    /\ rpc = "listed"
    /\ listing = <<"a", "b">>
    /\ \E n \in Names : files[TmpPath(n)].exists

\* C10: frame of a completed save(P). When save(P) has returned, the
\* directory holds the files it held when the save began plus <P.name>.json,
\* and not the temporary file of P; every other path holds what it held;
\* <P.name>.json holds the document of P whatever it held before; and P is the
\* preset the caller passed.
Existing(d) == {q \in Paths : d[q].exists}

SaveFrame ==
    \A w \in Writers :
        wpc[w] = "done" =>
            LET p == PresetPath(NameOf(warg[w]))
                tmp == TmpPath(NameOf(warg[w]))
            IN /\ wret[w] = Return(PyNone)
               /\ Existing(files) = (Existing(wbefore[w]) \ {tmp}) \cup {p}
               /\ ~wbefore[w][tmp].exists =>
                      Existing(files) = Existing(wbefore[w]) \cup {p}
               /\ ~files[tmp].exists
               /\ \A q \in Paths \ {p, tmp} : files[q] = wbefore[w][q]
               /\ files[p] = File(SaveText(warg[w]))
               /\ warg[w] \in todo[w]

\* C10 as claimed: when save(P) has returned, the directory holds exactly the
\* files it held when the save began plus <P.name>.json.
SaveFrameAsClaimed ==
    \A w \in Writers :
        wpc[w] = "done" =>
            Existing(files) =
                Existing(wbefore[w]) \cup {PresetPath(NameOf(warg[w]))}

\* A completed save over an earlier, different version, next to the file of
\* another name.
SaveFrameWitness ==
    \E w \in Writers :
        /\ wpc[w] = "done"
        /\ wbefore[w][PresetPath(NameOf(warg[w]))].exists
        /\ wbefore[w][PresetPath(NameOf(warg[w]))] # files[PresetPath(NameOf(warg[w]))]
        /\ \E n \in Names \ {NameOf(warg[w])} : files[PresetPath(n)].exists

\* C9: concurrent writers, last writer wins. When two saves of the same name
\* have run interleaved and both are over, both have returned without error
\* and <name>.json holds the complete document of the save whose rename
\* happened last.
LastWriterWins ==
    (\A w \in Writers : wpc[w] = "done") =>
        /\ \A w \in Writers : wret[w] = Return(PyNone)
        /\ \E w \in Writers :
               /\ committed["a"] = {warg[w]}
               /\ files[PresetPath("a")] = File(SaveText(warg[w]))

====
